---- MODULE Spec2Model ----
(***************************************************************************)
(* yt-downloader: the download queue, its worker thread, the status store  *)
(* (one JSON file per id under /downloads/.status, mirrored in a           *)
(* per-process dict) and the HTTP handlers that touch them (src/app.py),   *)
(* served either by Flask's threaded development server (app.run) or by    *)
(* gunicorn's forked sync workers (src/gunicorn_config.py).                *)
(***************************************************************************)
EXTENDS Integers, Sequences, FiniteSets, TLC

\* ------------------------------------------------------------- bounds
MaxThreads == 2      \* request-handling threads of the HTTP server
MaxJobs == 2         \* jobs submitted overall (caps the download_counters)
MaxUrls == 2         \* longest 'urls' list of one POST /api/download

\* ------------------------------------------------- program constants
NProcs == 2                  \* gunicorn_config.py: workers = max(2, ...)
max_age_seconds == 86400     \* cleanup_old_status_files default argument

Threads == 1..MaxThreads
Procs == 1..NProcs
WorkerIds == 1..MaxThreads   \* Thread objects one process can create
None == 0                    \* download_worker_thread = None

\* ------------------------------------------------------ request inputs
JNull == [kind |-> "null", val |-> 0]
JNumber(n) == [kind |-> "number", val |-> n]
\* the (type, quality, speed) of the request bodies tried: a re-encoded
\* download, an audio download at unlimited speed, a null speed
RequestBodies == {<<"audio+video", "minivan", JNumber(5)>>,
                  <<"audio", "minivan", JNumber(0)>>,
                  <<"audio+video", "best", JNull>>}

\* f"download_{download_counter}"
VideoId(n) == <<"download_", n>>
VideoIds == {VideoId(n) : n \in 0..(MaxJobs - 1)}
NoId == <<"", 0>>

\* the tuple put on download_queue (the url itself is passed through opaque)
Job(ty, q, sp, id) == [type |-> ty, quality |-> q, speed |-> sp, id |-> id]
NoJob == Job("", "", JNull, NoId)

\* ------------------------------------------- entries of DOWNLOAD_DIR
\* a file name, as the pieces it is made of, the first character first
StatusDirEntry == <<".", "status">>      \* STATUS_DIR, a directory
HiddenFile == <<".", "hidden">>          \* a file some other program left
\* outtmpl '%(title)s_{quality_preset}.%(ext)s' (the title is opaque here)
OutputFile(job) ==
    <<"t", "itle_", job.quality, IF job.type = "audio" THEN ".mp3" ELSE ".mp4">>

\* Path.is_file()
is_file(f) == f # StatusDirEntry
\* f.name.startswith('.')
startswith_dot(f) == f[1] = "."

\* ------------------------------------------------------ status records
StatusRecord(s, pr, err) == [status |-> s, progress |-> pr, error |-> err]
Queued == StatusRecord("queued", 0, FALSE)
NotFound == StatusRecord("not_found", 0, FALSE)
NoRecord == StatusRecord("", 0, FALSE)

VARIABLES
    deploy,                  \* "app_run" (python app.py) or "gunicorn"
    download_dir,            \* DOWNLOAD_DIR: the names of its entries
    download_counter,        \* per process
    download_queue,          \* per process: queue.Queue contents
    unfinished_tasks,        \* per process: queue.Queue.unfinished_tasks
    download_worker_thread,  \* per process: None or the last Thread created
    download_status,         \* per process: dict video_id -> record
    active_downloads,        \* per process: set of video_id
    status_dir,              \* STATUS_DIR: video_id -> [data, age], the age
                             \* being time.time() - st_mtime
    req,                     \* request threads inside download()
    wk,                      \* per process: the worker Thread objects
    submitted,               \* per process: ids in the order they were put on the queue
    started,                 \* per process: ids in the order download_video was called
    response                 \* the error of the last 400 response of download()

vars == <<deploy, download_dir, download_counter, download_queue,
          unfinished_tasks, download_worker_thread, download_status,
          active_downloads, status_dir, req, wk, submitted, started,
          response>>

IdleReq == [pc |-> "idle", proc |-> 1, urls |-> 0, type |-> "", quality |-> "",
            speed |-> JNull, video_id |-> NoId, status_file |-> NoId]

Unborn == [pc |-> "unborn", job |-> NoJob, title |-> FALSE, rec |-> NoRecord,
           ret |-> "", duration |-> 0, minivan_success |-> TRUE, exc |-> ""]

Init ==
    /\ deploy \in {"app_run", "gunicorn"}
    /\ download_dir = {StatusDirEntry}
    /\ download_counter = [p \in Procs |-> 0]
    /\ download_queue = [p \in Procs |-> <<>>]
    /\ unfinished_tasks = [p \in Procs |-> 0]
    /\ download_worker_thread = [p \in Procs |-> None]
    /\ download_status = [p \in Procs |-> <<>>]
    /\ active_downloads = [p \in Procs |-> {}]
    /\ status_dir = <<>>
    /\ req = [t \in Threads |-> IdleReq]
    /\ wk = [p \in Procs |-> [w \in WorkerIds |-> Unborn]]
    /\ submitted = [p \in Procs |-> <<>>]
    /\ started = [p \in Procs |-> <<>>]
    /\ response = ""

\* ------------------------------------------------------- status store

\* dict assignment d[k] = v
DictSet(d, k, v) == [i \in (DOMAIN d) \cup {k} |-> IF i = k THEN v ELSE d[i]]
\* removal of the keys in ks
DictDrop(d, ks) == [i \in (DOMAIN d) \ ks |-> d[i]]

\* safe_update_status, first half: download_status[video_id] = status_dict.copy()
MemoryUpdate(p, id, rec) ==
    download_status' = [download_status EXCEPT ![p] = DictSet(@, id, rec)]

\* open(status_file, 'w'): creates or truncates the file
FileOpenW(id) ==
    status_dir' = DictSet(status_dir, id, [data |-> <<>>, age |-> 0])

\* json.dump + close on the descriptor opened by FileOpenW.  The bytes go to
\* offset 0 of the opened inode: an unlinked file stays unlinked, and bytes a
\* second writer put there meanwhile are overwritten only as far as this
\* record is long (what is left then does not parse).
FileDumpOutcomes(id, rec) ==
    IF id \notin DOMAIN status_dir THEN {status_dir}
    ELSE IF status_dir[id].data = <<>>
         THEN {DictSet(status_dir, id, [data |-> <<rec>>, age |-> 0])}
         ELSE {DictSet(status_dir, id, [data |-> <<rec>>, age |-> 0]),
               DictSet(status_dir, id, [data |-> <<>>, age |-> 0])}

\* get_status_from_file
MemoryGet(p, id) ==
    IF id \in DOMAIN download_status[p] THEN download_status[p][id] ELSE NotFound

get_status_from_file(p, id) ==
    IF id \in DOMAIN status_dir /\ Len(status_dir[id].data) = 1
    THEN status_dir[id].data[1]
    ELSE MemoryGet(p, id)

\* cleanup_old_status_files: current_time - st_mtime > max_age_seconds
Expired(id) == status_dir[id].age > max_age_seconds

\* --------------------------------------------------- request handling

Busy(p) == {t \in Threads : req[t].pc # "idle" /\ req[t].proc = p}

\* Flask's development server runs one process and a thread per request;
\* a gunicorn sync worker is one of NProcs processes and serves one request
\* at a time.
CanServe(p) ==
    IF deploy = "app_run" THEN p = 1 ELSE Busy(p) = {}

RECURSIVE SumOver(_, _)
SumOver(f, S) ==
    IF S = {} THEN 0
    ELSE LET x == CHOOSE y \in S : TRUE IN f[x] + SumOver(f, S \ {x})

\* jobs that can still be submitted within the bound
Room == MaxJobs - SumOver(download_counter, Procs)
                - SumOver([t \in Threads |-> req[t].urls], Threads)

is_alive(p, w) == wk[p][w].pc \notin {"unborn", "created", "dead"}

\* mutant of ReqNoUrls: 'if not urls' tested after start_download_worker()
ReqNoUrlsAfterStart(t) ==
    /\ req[t].pc = "idle"
    /\ \E p \in Procs :
        /\ CanServe(p)
        /\ download_worker_thread[p] = None
        /\ download_worker_thread' = [download_worker_thread EXCEPT ![p] = 1]
        /\ wk' = [wk EXCEPT ![p][1].pc = "get"]
    /\ response' = "No URLs provided"
    /\ UNCHANGED <<deploy, download_dir, download_counter, download_queue,
                   unfinished_tasks, download_status, active_downloads,
                   status_dir, req, submitted, started>>

\* download() with 'urls' missing, null or empty: the request is parsed and
\* 'if not urls' returns {'error': 'No URLs provided'} with status 400
ReqNoUrls(t) ==
    /\ req[t].pc = "idle"
    /\ \E p \in Procs : CanServe(p)
    /\ response' = "No URLs provided"
    /\ UNCHANGED <<deploy, download_dir, download_counter, download_queue,
                   unfinished_tasks, download_worker_thread, download_status,
                   active_downloads, status_dir, req, wk, submitted, started>>

\* download() with a list of n >= 1 urls: request parsing, 'if not urls' false
ReqDownload(t) ==
    /\ req[t].pc = "idle"
    /\ \E p \in Procs, n \in 1..MaxUrls :
        /\ CanServe(p)
        /\ n <= Room
        /\ \E body \in RequestBodies :
             req' = [req EXCEPT ![t] =
                       [IdleReq EXCEPT !.pc = "check", !.proc = p, !.urls = n,
                                       !.type = body[1], !.quality = body[2],
                                       !.speed = body[3]]]
    /\ UNCHANGED <<deploy, response, download_dir, download_counter, download_queue,
                   unfinished_tasks, download_worker_thread, download_status,
                   active_downloads, status_dir, wk, submitted, started>>

\* start_download_worker: the test of the global
StartCheck(t) ==
    /\ req[t].pc = "check"
    /\ LET p == req[t].proc
           w == download_worker_thread[p]
       IN req' = [req EXCEPT ![t].pc =
                     IF w = None \/ ~is_alive(p, w) THEN "cleanup" ELSE "alloc"]
    /\ UNCHANGED <<deploy, response, download_dir, download_counter, download_queue,
                   unfinished_tasks, download_worker_thread, download_status,
                   active_downloads, status_dir, wk, submitted, started>>

\* start_download_worker: cleanup_old_status_files(), the loop over the
\* status files up to the next one whose stat() finds it old enough, or to
\* the end of the loop
StartCleanup(t) ==
    /\ req[t].pc = "cleanup"
    /\ LET old == {id \in DOMAIN status_dir : Expired(id)} IN
       IF old = {}
       THEN req' = [req EXCEPT ![t].pc = "create"]
       ELSE \E id \in old :
              req' = [req EXCEPT ![t].pc = "unlink", ![t].status_file = id]
    /\ UNCHANGED <<deploy, response, download_dir, download_counter, download_queue,
                   unfinished_tasks, download_worker_thread, download_status,
                   active_downloads, status_dir, wk, submitted, started>>

\* cleanup_old_status_files: status_file.unlink() of the file found old, and
\* on with the loop; if the file is gone by now, FileNotFoundError ends the
\* loop in 'except Exception'
SweepUnlink(t) ==
    /\ req[t].pc = "unlink"
    /\ IF req[t].status_file \in DOMAIN status_dir
       THEN /\ status_dir' = DictDrop(status_dir, {req[t].status_file})
            /\ req' = [req EXCEPT ![t].pc = "cleanup", ![t].status_file = NoId]
       ELSE /\ status_dir' = status_dir
            /\ req' = [req EXCEPT ![t].pc = "create", ![t].status_file = NoId]
    /\ UNCHANGED <<deploy, response, download_dir, download_counter, download_queue,
                   unfinished_tasks, download_worker_thread, download_status,
                   active_downloads, wk, submitted, started>>

\* start_download_worker: download_worker_thread = threading.Thread(...)
\* (one process creates at most the Thread objects of WorkerIds)
StartCreate(t) ==
    /\ req[t].pc = "create"
    /\ LET p == req[t].proc IN
       \E w \in WorkerIds :
        /\ wk[p][w].pc = "unborn"
        /\ \A v \in WorkerIds : v < w => wk[p][v].pc # "unborn"
        /\ wk' = [wk EXCEPT ![p][w].pc = "created"]
        /\ download_worker_thread' = [download_worker_thread EXCEPT ![p] = w]
    /\ req' = [req EXCEPT ![t].pc = "start"]
    /\ UNCHANGED <<deploy, response, download_dir, download_counter, download_queue,
                   unfinished_tasks, download_status, active_downloads,
                   status_dir, submitted, started>>

\* start_download_worker: download_worker_thread.start(), on whatever Thread
\* the global names by now; starting a Thread twice raises RuntimeError, which
\* leaves download() as a 500 response
StartStart(t) ==
    /\ req[t].pc = "start"
    /\ LET p == req[t].proc
           w == download_worker_thread[p]
       IN IF wk[p][w].pc = "created"
          THEN /\ wk' = [wk EXCEPT ![p][w].pc = "get"]
               /\ req' = [req EXCEPT ![t].pc = "alloc"]
          ELSE /\ wk' = wk
               /\ req' = [req EXCEPT ![t] = IdleReq]
    /\ UNCHANGED <<deploy, response, download_dir, download_counter, download_queue,
                   unfinished_tasks, download_worker_thread, download_status,
                   active_downloads, status_dir, submitted, started>>

\* mutant of AllocId: the job goes on the queue as soon as it has its id,
\* ahead of the handler's 'queued' write
AllocIdPutFirst(t) ==
    /\ req[t].pc = "alloc"
    /\ LET p == req[t].proc
           id == VideoId(download_counter[p])
           job == Job(req[t].type, req[t].quality, req[t].speed, id)
       IN /\ download_counter' = [download_counter EXCEPT ![p] = @ + 1]
          /\ download_queue' = [download_queue EXCEPT ![p] = Append(@, job)]
          /\ unfinished_tasks' = [unfinished_tasks EXCEPT ![p] = @ + 1]
          /\ submitted' = [submitted EXCEPT ![p] = Append(@, id)]
          /\ req' = [req EXCEPT ![t].pc = "status_mem", ![t].video_id = id]
    /\ UNCHANGED <<deploy, response, download_dir, download_worker_thread,
                   download_status, active_downloads, status_dir, wk, started>>

\* download(): the id allocation under download_counter_lock
AllocId(t) ==
    /\ req[t].pc = "alloc"
    /\ LET p == req[t].proc
           id == VideoId(download_counter[p])
       IN /\ download_counter' = [download_counter EXCEPT ![p] = @ + 1]
          /\ req' = [req EXCEPT ![t].pc = "status_mem", ![t].video_id = id]
    /\ UNCHANGED <<deploy, response, download_dir, download_queue, unfinished_tasks,
                   download_worker_thread, download_status, active_downloads,
                   status_dir, wk, submitted, started>>

\* download(): safe_update_status(video_id, {'status': 'queued', 'progress': 0})
ReqStatusMem(t) ==
    /\ req[t].pc = "status_mem"
    /\ MemoryUpdate(req[t].proc, req[t].video_id, Queued)
    /\ req' = [req EXCEPT ![t].pc = "status_open"]
    /\ UNCHANGED <<deploy, response, download_dir, download_counter, download_queue,
                   unfinished_tasks, download_worker_thread, active_downloads,
                   status_dir, wk, submitted, started>>

ReqStatusOpen(t) ==
    /\ req[t].pc = "status_open"
    /\ FileOpenW(req[t].video_id)
    /\ req' = [req EXCEPT ![t].pc = "status_dump"]
    /\ UNCHANGED <<deploy, response, download_dir, download_counter, download_queue,
                   unfinished_tasks, download_worker_thread, download_status,
                   active_downloads, wk, submitted, started>>

ReqStatusDump(t) ==
    /\ req[t].pc = "status_dump"
    /\ status_dir' \in FileDumpOutcomes(req[t].video_id, Queued)
    /\ req' = [req EXCEPT ![t].pc = "put"]
    /\ UNCHANGED <<deploy, response, download_dir, download_counter, download_queue,
                   unfinished_tasks, download_worker_thread, download_status,
                   active_downloads, wk, submitted, started>>

\* download(): download_queue.put(...), then the next url or the response
QueuePut(t) ==
    /\ req[t].pc = "put"
    /\ LET p == req[t].proc
           job == Job(req[t].type, req[t].quality, req[t].speed, req[t].video_id)
       IN /\ download_queue' = [download_queue EXCEPT ![p] = Append(@, job)]
          /\ unfinished_tasks' = [unfinished_tasks EXCEPT ![p] = @ + 1]
          /\ submitted' = [submitted EXCEPT ![p] = Append(@, req[t].video_id)]
          /\ req' = [req EXCEPT ![t] =
                       IF req[t].urls > 1
                       THEN [@ EXCEPT !.pc = "alloc", !.urls = @ - 1]
                       ELSE IdleReq]
    /\ UNCHANGED <<deploy, response, download_dir, download_counter,
                   download_worker_thread, download_status, active_downloads,
                   status_dir, wk, started>>

\* ------------------------------------------------------ worker thread

\* what the download tool hands to progress_hook
HookStatuses == {"downloading", "processing", "finished"}
Totals == {0, 2}         \* total_bytes or total_bytes_estimate
Downloadeds == {1, 3}    \* downloaded_bytes
\* what ffprobe and ffmpeg report
Durations == {0, 2}
CurrentTimes == {1, 3}

\* int((downloaded / total) * 100)
HookProgress(downloaded, total) == (downloaded * 100) \div total

Min(a, b) == IF a <= b THEN a ELSE b

\* int(75 + min(current_time / duration, 1.0) * 24)
EncodeProgress(current_time, duration) ==
    75 + (Min(current_time, duration) * 24) \div duration

\* the record progress_hook writes for callback d, if it writes one
HookRecords(st, downloaded, total) ==
    IF st = "downloading"
    THEN IF total > 0
         THEN {StatusRecord("downloading", HookProgress(downloaded, total), FALSE)}
         ELSE {}
    ELSE IF st = "processing" THEN {StatusRecord("processing", 50, FALSE)}
    ELSE IF st = "finished" THEN {StatusRecord("finished", 100, FALSE)}
    ELSE {}

\* rate_limit_bytes = speed_limit_mbps * 1024 * 1024 raises TypeError on null
RateLimitRaises(speed) == speed # JNumber(0) /\ speed.kind = "null"

NeedsReencode(job) == job.type = "audio+video" /\ job.quality = "minivan"

\* a worker thread calls safe_update_status(rec) and goes on at `next`: the
\* dict update under download_status_lock; the file is written in the two
\* steps that follow
BeginWrite(p, w, rec, next) ==
    /\ MemoryUpdate(p, wk[p][w].job.id, rec)
    /\ wk' = [wk EXCEPT ![p][w].pc = "w_open", ![p][w].rec = rec,
                        ![p][w].ret = next]

\* mutant of WorkerGet: the job is read but left on the queue
WorkerGetNoPop(p, w) ==
    /\ wk[p][w].pc = "get"
    /\ download_queue[p] # <<>>
    /\ MemoryUpdate(p, Head(download_queue[p]).id, Queued)
    /\ wk' = [wk EXCEPT ![p][w] =
                [@ EXCEPT !.pc = "w_open", !.job = Head(download_queue[p]),
                          !.rec = Queued, !.ret = "enter", !.title = FALSE,
                          !.duration = 0, !.minivan_success = TRUE, !.exc = ""]]
    /\ UNCHANGED <<deploy, response, download_dir, download_counter, download_queue,
                   unfinished_tasks,
                   download_worker_thread, active_downloads,
                   status_dir, req, submitted, started>>

\* download_worker: download_queue.get() and the 'queued' write that follows
WorkerGet(p, w) ==
    /\ wk[p][w].pc = "get"
    /\ download_queue[p] # <<>>
    /\ download_queue' = [download_queue EXCEPT ![p] = Tail(@)]
    /\ MemoryUpdate(p, Head(download_queue[p]).id, Queued)
    /\ wk' = [wk EXCEPT ![p][w] =
                [@ EXCEPT !.pc = "w_open", !.job = Head(download_queue[p]),
                          !.rec = Queued, !.ret = "enter", !.title = FALSE,
                          !.duration = 0, !.minivan_success = TRUE, !.exc = ""]]
    /\ UNCHANGED <<deploy, response, download_dir, download_counter, unfinished_tasks,
                   download_worker_thread, active_downloads,
                   status_dir, req, submitted, started>>

\* safe_update_status as run by a worker thread: the file
WorkerStatusOpen(p, w) ==
    /\ wk[p][w].pc = "w_open"
    /\ FileOpenW(wk[p][w].job.id)
    /\ wk' = [wk EXCEPT ![p][w].pc = "w_dump"]
    /\ UNCHANGED <<deploy, response, download_dir, download_counter, download_queue,
                   unfinished_tasks, download_worker_thread, download_status,
                   active_downloads, req, submitted, started>>

WorkerStatusDump(p, w) ==
    /\ wk[p][w].pc = "w_dump"
    /\ status_dir' \in FileDumpOutcomes(wk[p][w].job.id, wk[p][w].rec)
    /\ wk' = [wk EXCEPT ![p][w].pc = wk[p][w].ret, ![p][w].rec = NoRecord,
                        ![p][w].ret = ""]
    /\ UNCHANGED <<deploy, response, download_dir, download_counter, download_queue,
                   unfinished_tasks, download_worker_thread, download_status,
                   active_downloads, req, submitted, started>>

\* download_video, from the call to the 'downloading' write: the rate limit,
\* video_title, active_downloads.add
EnterDownloadVideo(p, w) ==
    /\ wk[p][w].pc = "enter"
    /\ started' = [started EXCEPT ![p] = Append(@, wk[p][w].job.id)]
    /\ IF RateLimitRaises(wk[p][w].job.speed)
       THEN /\ wk' = [wk EXCEPT ![p][w].pc = "except", ![p][w].exc = "TypeError"]
            /\ UNCHANGED <<active_downloads, download_status>>
       ELSE /\ active_downloads' =
                 [active_downloads EXCEPT ![p] = @ \cup {wk[p][w].job.id}]
            /\ MemoryUpdate(p, wk[p][w].job.id, StatusRecord("downloading", 0, FALSE))
            /\ wk' = [wk EXCEPT ![p][w].pc = "w_open", ![p][w].title = TRUE,
                                ![p][w].rec = StatusRecord("downloading", 0, FALSE),
                                ![p][w].ret = "ydl"]
    /\ UNCHANGED <<deploy, response, download_dir, download_counter, download_queue,
                   unfinished_tasks, download_worker_thread,
                   status_dir, req, submitted>>

\* progress_hook(d), called by the download tool inside ydl.download
ProgressHook(p, w) ==
    /\ wk[p][w].pc = "ydl"
    /\ wk[p][w].job.id \in active_downloads[p]
    /\ \E st \in HookStatuses, total \in Totals, downloaded \in Downloadeds :
       \E rec \in HookRecords(st, downloaded, total) :
          BeginWrite(p, w, rec, "ydl")
    /\ UNCHANGED <<deploy, response, download_dir, download_counter, download_queue,
                   unfinished_tasks,
                   download_worker_thread, active_downloads, status_dir, req,
                   submitted, started>>

\* mutant of DownloadReturns: the minivan block is entered on the quality
\* preset alone, whatever the download type
DownloadReturnsAnyType(p, w) ==
    /\ wk[p][w].pc = "ydl"
    /\ IF wk[p][w].job.quality = "minivan"
       THEN BeginWrite(p, w, StatusRecord("processing", 75, FALSE), "probe")
       ELSE /\ wk' = [wk EXCEPT ![p][w].pc = "finish"]
            /\ UNCHANGED download_status
    /\ UNCHANGED <<deploy, response, download_dir, download_counter, download_queue,
                   unfinished_tasks, download_worker_thread, active_downloads,
                   status_dir, req, submitted, started>>

\* ydl.download returns: straight to completion, or the minivan block
DownloadReturns(p, w) ==
    /\ wk[p][w].pc = "ydl"
    /\ IF NeedsReencode(wk[p][w].job)
       THEN BeginWrite(p, w, StatusRecord("processing", 75, FALSE), "probe")
       ELSE /\ wk' = [wk EXCEPT ![p][w].pc = "finish"]
            /\ UNCHANGED download_status
    /\ UNCHANGED <<deploy, response, download_dir, download_counter, download_queue,
                   unfinished_tasks,
                   download_worker_thread, active_downloads, status_dir, req,
                   submitted, started>>

\* ydl.download raises
DownloadRaises(p, w) ==
    /\ wk[p][w].pc = "ydl"
    /\ wk' = [wk EXCEPT ![p][w].pc = "except", ![p][w].exc = "DownloadError"]
    /\ UNCHANGED <<deploy, response, download_dir, download_counter, download_queue,
                   unfinished_tasks, download_worker_thread, download_status,
                   active_downloads, status_dir, req, submitted, started>>

\* mutant of Probe: a failure of the probe is not caught by the inner
\* 'except Exception as encode_error' and reaches the outer handler
ProbeUncaught(p, w) ==
    /\ wk[p][w].pc = "probe"
    /\ \/ wk' = [wk EXCEPT ![p][w].pc = "except", ![p][w].minivan_success = FALSE,
                            ![p][w].exc = "EncodeError"]
       \/ \E d \in Durations :
            wk' = [wk EXCEPT ![p][w].pc = "ffmpeg", ![p][w].duration = d]
    /\ UNCHANGED <<deploy, response, download_dir, download_counter, download_queue,
                   unfinished_tasks, download_worker_thread, download_status,
                   active_downloads, status_dir, req, submitted, started>>

\* minivan block up to Popen: glob finds no file, ffprobe fails or its output
\* does not parse (minivan_success = False), or the duration is known
Probe(p, w) ==
    /\ wk[p][w].pc = "probe"
    /\ \/ wk' = [wk EXCEPT ![p][w].pc = "finish", ![p][w].minivan_success = FALSE]
       \/ \E d \in Durations :
            wk' = [wk EXCEPT ![p][w].pc = "ffmpeg", ![p][w].duration = d]
    /\ UNCHANGED <<deploy, response, download_dir, download_counter, download_queue,
                   unfinished_tasks, download_worker_thread, download_status,
                   active_downloads, status_dir, req, submitted, started>>

\* one 'time=' line of ffmpeg's stderr
EncodeProgressLine(p, w) ==
    /\ wk[p][w].pc = "ffmpeg"
    /\ wk[p][w].duration > 0
    /\ \E ct \in CurrentTimes :
         BeginWrite(p, w, StatusRecord("processing",
                                       EncodeProgress(ct, wk[p][w].duration), FALSE),
                    "ffmpeg")
    /\ UNCHANGED <<deploy, response, download_dir, download_counter, download_queue,
                   unfinished_tasks,
                   download_worker_thread, active_downloads, status_dir, req,
                   submitted, started>>

\* ffmpeg ends: returncode 0 and os.replace, or a failure caught by
\* 'except Exception as encode_error'
EncodeEnds(p, w) ==
    /\ wk[p][w].pc = "ffmpeg"
    /\ \E ok \in BOOLEAN :
         wk' = [wk EXCEPT ![p][w].pc = "finish", ![p][w].minivan_success = ok,
                          ![p][w].duration = 0]
    /\ UNCHANGED <<deploy, response, download_dir, download_counter, download_queue,
                   unfinished_tasks, download_worker_thread, download_status,
                   active_downloads, status_dir, req, submitted, started>>

\* active_downloads.discard and the final 'completed' write
FinalRecord == StatusRecord("completed", 100, FALSE)

Finish(p, w) ==
    /\ wk[p][w].pc = "finish"
    /\ active_downloads' = [active_downloads EXCEPT ![p] = @ \ {wk[p][w].job.id}]
    /\ BeginWrite(p, w, FinalRecord, "task_done")
    /\ UNCHANGED <<deploy, response, download_dir, download_counter, download_queue,
                   unfinished_tasks,
                   download_worker_thread, status_dir, req, submitted,
                   started>>

\* mutant of ExceptHandler: the failed job is put back on the queue (a retry)
ExceptHandlerRetry(p, w) ==
    /\ wk[p][w].pc = "except"
    /\ active_downloads' = [active_downloads EXCEPT ![p] = @ \ {wk[p][w].job.id}]
    /\ download_queue' = [download_queue EXCEPT ![p] = Append(@, wk[p][w].job)]
    /\ IF wk[p][w].title
       THEN /\ MemoryUpdate(p, wk[p][w].job.id, StatusRecord("error", 0, TRUE))
            /\ wk' = [wk EXCEPT ![p][w].pc = "w_open",
                                ![p][w].rec = StatusRecord("error", 0, TRUE),
                                ![p][w].ret = "task_done"]
       ELSE /\ wk' = [wk EXCEPT ![p][w].pc = "worker_except"]
            /\ UNCHANGED download_status
    /\ UNCHANGED <<deploy, response, download_dir, download_counter, unfinished_tasks,
                   download_worker_thread, status_dir, req, submitted, started>>

\* 'except Exception as e' of download_video: the discard, then the 'error'
\* write, whose message reads video_title (unbound if the rate limit raised:
\* the NameError leaves download_video)
ErrorRecord == StatusRecord("error", 0, TRUE)

ExceptHandler(p, w) ==
    /\ wk[p][w].pc = "except"
    /\ active_downloads' = [active_downloads EXCEPT ![p] = @ \ {wk[p][w].job.id}]
    /\ IF wk[p][w].title
       THEN BeginWrite(p, w, ErrorRecord, "task_done")
       ELSE /\ wk' = [wk EXCEPT ![p][w].pc = "worker_except"]
            /\ UNCHANGED download_status
    /\ UNCHANGED <<deploy, response, download_dir, download_counter, download_queue,
                   unfinished_tasks,
                   download_worker_thread, status_dir, req, submitted,
                   started>>

\* download_worker: the next turn of 'while True'
WorkerLoop(p, w) ==
    [wk EXCEPT ![p][w] = [Unborn EXCEPT !.pc = "get"]]

\* download_worker: download_queue.task_done() after download_video returned;
\* task_done() raises ValueError when called more often than put()
TaskDone(p, w) ==
    /\ wk[p][w].pc = "task_done"
    /\ IF unfinished_tasks[p] > 0
       THEN /\ unfinished_tasks' = [unfinished_tasks EXCEPT ![p] = @ - 1]
            /\ wk' = WorkerLoop(p, w)
       ELSE /\ unfinished_tasks' = unfinished_tasks
            /\ wk' = [wk EXCEPT ![p][w].pc = "worker_except"]
    /\ UNCHANGED <<deploy, response, download_dir, download_counter, download_queue,
                   download_worker_thread, download_status, active_downloads,
                   status_dir, req, submitted, started>>

\* mutant of WorkerExcept: download_worker has no 'except Exception', and
\* what download_video raises ends the thread
WorkerExceptUncaught(p, w) ==
    /\ wk[p][w].pc = "worker_except"
    /\ wk' = [wk EXCEPT ![p][w].pc = "dead"]
    /\ UNCHANGED <<deploy, response, download_dir, download_counter, download_queue,
                   unfinished_tasks, download_worker_thread, download_status,
                   active_downloads, status_dir, req, submitted, started>>

\* download_worker: 'except Exception as e' and its task_done(); a ValueError
\* of that task_done() leaves download_worker and ends the thread
WorkerExcept(p, w) ==
    /\ wk[p][w].pc = "worker_except"
    /\ IF unfinished_tasks[p] > 0
       THEN /\ unfinished_tasks' = [unfinished_tasks EXCEPT ![p] = @ - 1]
            /\ wk' = WorkerLoop(p, w)
       ELSE /\ unfinished_tasks' = unfinished_tasks
            /\ wk' = [wk EXCEPT ![p][w].pc = "dead"]
    /\ UNCHANGED <<deploy, response, download_dir, download_counter, download_queue,
                   download_worker_thread, download_status, active_downloads,
                   status_dir, req, submitted, started>>

\* ------------------------------------------- other handlers, and time

\* list_downloads: the names GET /api/downloads answers
list_downloads == {f \in download_dir : is_file(f)}

\* clear_downloads: the unlink of every file of DOWNLOAD_DIR whose name does
\* not start with '.', then of every status file
ClearDownloads(p) ==
    /\ CanServe(p)
    /\ LET files == {f \in download_dir : is_file(f) /\ ~startswith_dot(f)} IN
         /\ files # {} \/ status_dir # <<>>
         /\ download_dir' = download_dir \ files
    /\ status_dir' = <<>>
    /\ UNCHANGED <<deploy, response, download_counter, download_queue,
                   unfinished_tasks, download_worker_thread, download_status,
                   active_downloads, req, wk, submitted, started>>

\* delete_file: DELETE /api/downloads/<filename> of an existing file (any
\* other name is answered 404 and changes nothing)
DeleteFile(p, filename) ==
    /\ CanServe(p)
    /\ filename \in download_dir /\ is_file(filename)
    /\ download_dir' = download_dir \ {filename}
    /\ UNCHANGED <<deploy, response, download_counter, download_queue,
                   unfinished_tasks, download_worker_thread, download_status,
                   active_downloads, status_dir, req, wk, submitted, started>>

\* ydl.download: the download tool writes the job's file into DOWNLOAD_DIR
ToolWritesFile(p, w) ==
    /\ wk[p][w].pc = "ydl"
    /\ OutputFile(wk[p][w].job) \notin download_dir
    /\ download_dir' = download_dir \cup {OutputFile(wk[p][w].job)}
    /\ UNCHANGED <<deploy, response, download_counter, download_queue,
                   unfinished_tasks, download_worker_thread, download_status,
                   active_downloads, status_dir, req, wk, submitted, started>>

\* time passes: max_age_seconds more on every status file (ages past twice
\* the TTL are alike to the sweep).  That long a thread stays only where it
\* waits: in get() on an empty queue, in the download tool, in ffmpeg; a
\* request and a status write are short against it.
Older(f) == [f EXCEPT !.age = Min(@ + max_age_seconds, 2 * max_age_seconds)]

Waiting(p, w) ==
    \/ wk[p][w].pc \in {"unborn", "created", "ydl", "ffmpeg"}
    \/ wk[p][w].pc = "get" /\ download_queue[p] = <<>>

Tick ==
    /\ \A t \in Threads : req[t].pc = "idle"
    /\ \A p \in Procs, w \in WorkerIds : Waiting(p, w)
    /\ \E id \in DOMAIN status_dir : status_dir[id].age < 2 * max_age_seconds
    /\ status_dir' = [id \in DOMAIN status_dir |-> Older(status_dir[id])]
    /\ UNCHANGED <<deploy, response, download_dir, download_counter, download_queue,
                   unfinished_tasks, download_worker_thread, download_status,
                   active_downloads, req, wk, submitted, started>>

Next ==
    \/ \E t \in Threads :
         \/ ReqDownload(t)
         \/ StartCheck(t)
         \/ StartCleanup(t)
         \/ StartCreate(t)
         \/ StartStart(t)
         \/ AllocId(t)
         \/ ReqStatusMem(t)
         \/ ReqStatusOpen(t)
         \/ ReqStatusDump(t)
         \/ QueuePut(t)
    \/ \E p \in Procs, w \in WorkerIds :
         \/ WorkerGet(p, w)
         \/ WorkerStatusOpen(p, w)
         \/ WorkerStatusDump(p, w)
         \/ EnterDownloadVideo(p, w)
         \/ ProgressHook(p, w)
         \/ DownloadReturns(p, w)
         \/ DownloadRaises(p, w)
         \/ Probe(p, w)
         \/ EncodeProgressLine(p, w)
         \/ EncodeEnds(p, w)
         \/ Finish(p, w)
         \/ ExceptHandler(p, w)
         \/ TaskDone(p, w)
         \/ WorkerExcept(p, w)
    \/ \E p \in Procs : ClearDownloads(p)

Spec == Init /\ [][Next]_vars

\* The same program with what Spec holds fixed: DOWNLOAD_DIR may hold a
\* hidden file at start, the download tool writes the files, files are
\* deleted and time passes.  Requests arrive one at a time here, and the
\* download tool and the transcoder report no progress.
InitDisk ==
    /\ deploy \in {"app_run", "gunicorn"}
    /\ download_dir \in {{StatusDirEntry}, {StatusDirEntry, HiddenFile}}
    /\ download_counter = [p \in Procs |-> 0]
    /\ download_queue = [p \in Procs |-> <<>>]
    /\ unfinished_tasks = [p \in Procs |-> 0]
    /\ download_worker_thread = [p \in Procs |-> None]
    /\ download_status = [p \in Procs |-> <<>>]
    /\ active_downloads = [p \in Procs |-> {}]
    /\ status_dir = <<>>
    /\ req = [t \in Threads |-> IdleReq]
    /\ wk = [p \in Procs |-> [w \in WorkerIds |-> Unborn]]
    /\ submitted = [p \in Procs |-> <<>>]
    /\ started = [p \in Procs |-> <<>>]
    /\ response = ""

ReqDownloadAlone(t) ==
    /\ \A u \in Threads : req[u].pc = "idle"
    /\ ReqDownload(t)

NextDisk ==
    \/ \E t \in Threads :
         \/ ReqDownloadAlone(t)
         \/ StartCheck(t)
         \/ StartCleanup(t)
         \/ SweepUnlink(t)
         \/ StartCreate(t)
         \/ StartStart(t)
         \/ AllocId(t)
         \/ ReqStatusMem(t)
         \/ ReqStatusOpen(t)
         \/ ReqStatusDump(t)
         \/ QueuePut(t)
    \/ \E p \in Procs, w \in WorkerIds :
         \/ WorkerGet(p, w)
         \/ WorkerStatusOpen(p, w)
         \/ WorkerStatusDump(p, w)
         \/ EnterDownloadVideo(p, w)
         \/ ToolWritesFile(p, w)
         \/ DownloadReturns(p, w)
         \/ DownloadRaises(p, w)
         \/ Probe(p, w)
         \/ EncodeEnds(p, w)
         \/ Finish(p, w)
         \/ ExceptHandler(p, w)
         \/ TaskDone(p, w)
         \/ WorkerExcept(p, w)
    \/ \E p \in Procs : ClearDownloads(p)
    \/ \E p \in Procs, filename \in download_dir : DeleteFile(p, filename)
    \/ Tick

SpecDisk == InitDisk /\ [][NextDisk]_vars

\* The program with the 400 response of download() observed.  Spec leaves
\* the request without urls out: it changes `response` only, which no action
\* reads.
NextReply ==
    \/ Next
    \/ \E t \in Threads : ReqNoUrls(t)

SpecReply == Init /\ [][NextReply]_vars

\* ------------------------------------------------------------ claims

Range(seq) == {seq[i] : i \in 1..Len(seq)}
Count(seq, x) == Cardinality({i \in 1..Len(seq) : seq[i] = x})
QueuedIds(p) == [i \in 1..Len(download_queue[p]) |-> download_queue[p][i].id]

TerminalStatuses == {"completed", "error"}
Statuses == {"queued", "downloading", "processing", "finished", "completed", "error"}

\* the worker thread is between the call of download_video and its return
InDownloadVideo(p, w) ==
    \/ wk[p][w].pc \in {"ydl", "probe", "ffmpeg", "finish", "except"}
    \/ wk[p][w].pc \in {"w_open", "w_dump"} /\ wk[p][w].ret # "enter"

\* the worker thread has taken the job off the queue and not yet called
\* download_video
BeforeCall(p, w) ==
    \/ wk[p][w].pc = "enter"
    \/ wk[p][w].pc \in {"w_open", "w_dump"} /\ wk[p][w].ret = "enter"

\* a worker thread of p still has the job of this id in hand
InHand(p, id) == \E w \in WorkerIds : wk[p][w].job.id = id

\* C1: jobs run in submission order: a job is not started (download_video is
\* not called for it) before every job put on the same queue earlier has a
\* terminal status.
C1_SubmissionOrder ==
    \A p \in Procs : \A i, j \in 1..Len(submitted[p]) :
        (i < j /\ submitted[p][j] \in Range(started[p]))
            => MemoryGet(p, submitted[p][i]).status \in TerminalStatuses

\* C2: at most one job of a process is inside download_video at any time,
\* whatever the interleaving of the requests that call start_download_worker.
C2_OneJobAtATime ==
    \A p \in Procs : Cardinality({w \in WorkerIds : InDownloadVideo(p, w)}) <= 1

\* C3: the progress of a job's record never decreases from one write to the
\* next.
C3_ProgressNeverRegresses ==
    [][\A p \in Procs : \A id \in DOMAIN download_status[p] :
          download_status'[p][id].progress >= download_status[p][id].progress]_vars

\* C4: once the request that submitted a job has returned, a status poll for
\* its id, served by any process free to serve it, does not answer
\* 'not_found' (no status file is older than the TTL in these behaviours).
C4_StatusExists ==
    \A q \in Procs : \A id \in Range(submitted[q]) :
        Busy(q) = {} =>
            \A p \in Procs :
                CanServe(p) => get_status_from_file(p, id).status # "not_found"

\* C5: when the download succeeded and the re-encode step failed, the job is
\* on its way to, or has, the final record 'completed' with progress 100, and
\* never enters the error handler.
C5_ReencodeFailureCompletes ==
    \A p \in Procs, w \in WorkerIds :
        ~wk[p][w].minivan_success =>
            /\ wk[p][w].pc \in {"finish", "w_open", "w_dump", "task_done"}
            /\ wk[p][w].pc # "finish" =>
                 /\ MemoryGet(p, wk[p][w].job.id).status = "completed"
                 /\ MemoryGet(p, wk[p][w].job.id).progress = 100

C5_Witness ==
    \E p \in Procs, w \in WorkerIds :
        /\ ~wk[p][w].minivan_success
        /\ wk[p][w].pc = "task_done"
        /\ MemoryGet(p, wk[p][w].job.id).status = "completed"

\* C6: a job the worker has dequeued and is done with (no worker thread has
\* it in hand any more) has a terminal status.
C6_DequeuedReachesTerminal ==
    \A p \in Procs : \A id \in Range(started[p]) :
        ~InHand(p, id) => MemoryGet(p, id).status \in TerminalStatuses

\* C7: when the download tool raises, the job's record becomes 'error' with
\* the error text and progress 0, the exception does not leave download_video,
\* and the job is neither put back on the queue nor run a second time.
C7_ToolErrorReported ==
    \A p \in Procs, w \in WorkerIds :
        wk[p][w].exc = "DownloadError" =>
            /\ wk[p][w].pc \in {"except", "w_open", "w_dump", "task_done"}
            /\ wk[p][w].pc # "except" =>
                 /\ MemoryGet(p, wk[p][w].job.id).status = "error"
                 /\ MemoryGet(p, wk[p][w].job.id).progress = 0
                 /\ MemoryGet(p, wk[p][w].job.id).error
            /\ wk[p][w].job.id \notin Range(QueuedIds(p))
            /\ Count(started[p], wk[p][w].job.id) = 1

C7_Witness ==
    \E p \in Procs, w \in WorkerIds :
        /\ wk[p][w].exc = "DownloadError"
        /\ wk[p][w].pc = "task_done"
        /\ MemoryGet(p, wk[p][w].job.id).status = "error"

\* C8: every job put on a queue is, at any time, either on that queue once and
\* not yet taken, or taken once by one worker thread and passed to
\* download_video once: never lost, never run twice; and a queue that holds
\* jobs has a live worker thread to take them.
C8_ConsumedExactlyOnce ==
    \A p \in Procs :
        /\ Range(QueuedIds(p)) \subseteq Range(submitted[p])
        /\ download_queue[p] # <<>> => \E w \in WorkerIds : is_alive(p, w)
        /\ Range(started[p]) \subseteq Range(submitted[p])
        /\ \A id \in Range(submitted[p]) :
              /\ Count(submitted[p], id) = 1
              /\ Count(QueuedIds(p), id)
                   + Cardinality({w \in WorkerIds :
                                     BeforeCall(p, w) /\ wk[p][w].job.id = id})
                   + Count(started[p], id) = 1

C8_Witness ==
    \E p \in Procs :
        /\ Len(submitted[p]) = 2
        /\ Len(started[p]) = 2
        /\ Cardinality({w \in WorkerIds : is_alive(p, w)}) = 2

\* C9: no two submitted urls receive the same id, in whatever process each
\* was accepted.
C9_UniqueIds ==
    \A p, q \in Procs :
        \A i \in 1..Len(submitted[p]), j \in 1..Len(submitted[q]) :
            (p # q \/ i # j) => submitted[p][i] # submitted[q][j]

\* C10: every stored status record, in a process's dict or in a status file,
\* has one of the six statuses and a progress within 0..100.
RecordInRange(rec) ==
    rec.status \in Statuses /\ rec.progress >= 0 /\ rec.progress <= 100

C10_RecordsInRange ==
    /\ \A p \in Procs : \A id \in DOMAIN download_status[p] :
          RecordInRange(download_status[p][id])
    /\ \A id \in DOMAIN status_dir :
          \A i \in 1..Len(status_dir[id].data) :
              RecordInRange(status_dir[id].data[i])

\* a safe_update_status call for this id has updated the dict of its process
\* and has not yet closed the file
WriteInProgress(id) ==
    \/ \E t \in Threads :
          req[t].video_id = id /\ req[t].pc \in {"status_open", "status_dump"}
    \/ \E p \in Procs, w \in WorkerIds :
          wk[p][w].job.id = id /\ wk[p][w].pc \in {"w_open", "w_dump"}

\* C11: once every safe_update_status call for an id has finished, the status
\* file of the id, where there is one, holds the record a process has for the
\* id in its dict, and get_status_from_file answers that record (the last
\* one written).
C11_FileAgreesWithMemory ==
    \A p \in Procs : \A id \in DOMAIN download_status[p] :
        ~WriteInProgress(id) =>
            /\ id \in DOMAIN status_dir =>
                  status_dir[id].data = <<download_status[p][id]>>
            /\ get_status_from_file(p, id) = download_status[p][id]

\* C12: a successful DELETE /api/downloads/<name> leaves a directory whose
\* listing does not contain <name>, and a successful POST /api/downloads/clear
\* leaves one whose listing contains none of the files listed before it.
C12_RemovedFromListing ==
    [][/\ \A p \in Procs : \A filename \in download_dir :
            DeleteFile(p, filename) => filename \notin list_downloads'
       /\ \A p \in Procs :
            ClearDownloads(p) => list_downloads' \cap list_downloads = {}]_vars

\* the next start_download_worker of process p runs the sweep, or one of its
\* requests is running it
SweepAhead(p) ==
    /\ deploy = "app_run" => p = 1
    /\ \/ download_worker_thread[p] = None
       \/ ~is_alive(p, download_worker_thread[p])
       \/ \E t \in Threads :
             req[t].proc = p /\ req[t].pc \in {"cleanup", "unlink"}

\* C13: a status file older than the TTL is deleted by the sweep: whenever
\* one exists, a sweep is under way or some process will still run one.
C13_ExpiredIsSwept ==
    \A id \in DOMAIN status_dir :
        Expired(id) => \E p \in Procs : SweepAhead(p)

\* C14: a step of the sweep removes a status file only if the file is older
\* than the TTL when it is removed, and leaves the younger status files, the
\* status dicts and the download queues as they are.
C14_SweepDeletesOnlyExpired ==
    [][\A t \in Threads :
          (StartCleanup(t) \/ SweepUnlink(t)) =>
              /\ \A id \in DOMAIN status_dir :
                    IF Expired(id)
                    THEN id \in DOMAIN status_dir' => status_dir'[id] = status_dir[id]
                    ELSE id \in DOMAIN status_dir' /\ status_dir'[id] = status_dir[id]
              /\ DOMAIN status_dir' \subseteq DOMAIN status_dir
              /\ download_status' = download_status
              /\ download_queue' = download_queue]_vars

\* C15: when download_video has raised, or has caught, an exception for a
\* job, the job's record is 'error' by the time the worker is done with it.
C15_ExceptionEndsInError ==
    \A p \in Procs, w \in WorkerIds :
        (wk[p][w].exc # "" /\ wk[p][w].pc \in {"task_done", "worker_except"}) =>
            MemoryGet(p, wk[p][w].job.id).status = "error"

\* the worker thread has a job off the queue and has not yet called
\* task_done() for it
Unfinished(p, w) == wk[p][w].pc \notin {"unborn", "created", "get", "dead"}

\* C16: no worker thread ever ends, whatever happened to its jobs; a queue
\* that holds jobs has a live worker thread; and task_done() has been called
\* once for every job taken off the queue and finished with.
C16_WorkerSurvives ==
    \A p \in Procs :
        /\ \A w \in WorkerIds : wk[p][w].pc # "dead"
        /\ download_queue[p] # <<>> => \E w \in WorkerIds : is_alive(p, w)
        /\ unfinished_tasks[p] =
              Len(download_queue[p])
                + Cardinality({w \in WorkerIds : Unfinished(p, w)})

\* a job left download_video by an exception, and the same worker thread has
\* run the job queued behind it
C16_Witness ==
    /\ deploy = "gunicorn"
    /\ \E p \in Procs, w \in WorkerIds :
          /\ Len(started[p]) = 2
          /\ MemoryGet(p, started[p][1]).status = "queued"
          /\ wk[p][w].job.id = started[p][2]
          /\ wk[p][w].pc = "task_done"
          /\ unfinished_tasks[p] = 1

C18_TerminalIsFinal ==
    [][\A p \in Procs :
          /\ \A id \in DOMAIN download_status[p] :
                download_status[p][id].status \in TerminalStatuses =>
                    download_status'[p][id] = download_status[p][id]
          /\ \A id \in DOMAIN status_dir \cap DOMAIN status_dir' :
                (/\ Len(status_dir[id].data) = 1
                 /\ status_dir[id].data[1].status \in TerminalStatuses) =>
                    status_dir'[id].data = status_dir[id].data
          /\ Cardinality(active_downloads'[p]) <= 1
          /\ (\A w \in WorkerIds : ~Unfinished(p, w)') =>
                active_downloads'[p] = {}]_vars

\* the processes that have called safe_update_status for this id
WritersOf(id) == {p \in Procs : id \in DOMAIN download_status[p]}

\* C19: the status file of an id is written on behalf of one job only: no two
\* processes ever call safe_update_status for the same id.
C19_OneJobPerStatusFile ==
    \A id \in VideoIds : Cardinality(WritersOf(id)) <= 1

\* the number in f"download_{n}"
IdNumber(id) == id[2]

Increasing(ids) ==
    \A i, j \in 1..Len(ids) : i < j => IdNumber(ids[i]) < IdNumber(ids[j])

\* C20: in every process the jobs are put on the queue, and started by the
\* worker, in increasing order of their ids.
C20_IncreasingIdOrder ==
    \A p \in Procs : Increasing(submitted[p]) /\ Increasing(started[p])

\* the request thread is inside the safe_update_status call of download()
HandlerWriting(t) == req[t].pc \in {"status_mem", "status_open", "status_dump"}

\* C21: the request handler writes the 'queued' record of a job before it puts
\* the job on the queue: while the handler is writing, the job is neither on
\* the queue of its process nor in the hands of a worker thread of it, and the
\* process holds no record for the job but the handler's 'queued'; and every
\* job that was put on the queue has its record in the process.
C21_QueuedBeforePut ==
    /\ \A t \in Threads :
         HandlerWriting(t) =>
           LET p == req[t].proc
               id == req[t].video_id
           IN /\ id \notin Range(submitted[p])
              /\ id \notin Range(QueuedIds(p))
              /\ ~InHand(p, id)
              /\ id \in DOMAIN download_status[p] =>
                   download_status[p][id] = Queued
    /\ \A p \in Procs : Range(submitted[p]) \subseteq DOMAIN download_status[p]

\* the handler is writing the 'queued' record of one job while the record of
\* a job it put on the queue before is one the worker thread wrote
C21_Witness ==
    \E t \in Threads :
      /\ HandlerWriting(t)
      /\ \E id \in Range(submitted[req[t].proc]) :
           download_status[req[t].proc][id].status
             \in {"downloading", "processing", "completed", "error"}

\* what a request can change: everything but the response it returns
program_state == <<download_dir, download_counter, download_queue,
                   unfinished_tasks, download_worker_thread, download_status,
                   active_downloads, status_dir, req, wk, submitted, started>>

\* C22: POST /api/download without urls returns the 'No URLs provided' error
\* and changes nothing: the counters, the status records in memory and in
\* STATUS_DIR, the queues and the worker threads are as before the request.
C22_NoUrlsChangesNothing ==
    [][response' # response =>
         /\ response' = "No URLs provided"
         /\ UNCHANGED program_state]_vars

\* the error was returned and no id is allocated, no record written, nothing
\* queued and no worker thread created
C22_Witness ==
    /\ response = "No URLs provided"
    /\ status_dir = <<>>
    /\ \A p \in Procs :
         /\ download_counter[p] = 0
         /\ download_status[p] = <<>>
         /\ download_queue[p] = <<>>
         /\ download_worker_thread[p] = None

====
